---- MODULE Spec2Model ----
(***************************************************************************)
(* Model of the event correlation engine of eventhandler.go: the event     *)
(* dispatcher, the process / file / network handlers with their dedup      *)
(* maps and mutexes, the recursive tool-chain resolver GetToolChain and    *)
(* the private-address classifier isPrivateIPAddress.                      *)
(*                                                                         *)
(* Go strings are modelled as sequences of one-character strings, so that  *)
(* strings.Contains, path.Ext, path.Join, net.ParseIP and the Sprintf      *)
(* concatenation of the dedup key are computed character by character.     *)
(***************************************************************************)
EXTENDS Integers, Sequences, FiniteSets, TLC

\* ------------------------------------------------------------------------
\* Go strings
\* ------------------------------------------------------------------------

Digits == <<"0", "1", "2", "3", "4", "5", "6", "7", "8", "9">>

HexLetters == <<"a", "b", "c", "d", "e", "f">>

HexCapitals == <<"A", "B", "C", "D", "E", "F">>

\* The index of character c in the sequence cs, 0 when absent.
IndexIn(cs, c) ==
  IF \E i \in 1..Len(cs) : cs[i] = c
  THEN CHOOSE i \in 1..Len(cs) : cs[i] = c
  ELSE 0

IsDigit(c) == IndexIn(Digits, c) # 0

DigitVal(c) == IndexIn(Digits, c) - 1

IsHex(c) == IsDigit(c) \/ IndexIn(HexLetters, c) # 0 \/ IndexIn(HexCapitals, c) # 0

HexVal(c) ==
  IF IsDigit(c) THEN DigitVal(c)
  ELSE IF IndexIn(HexLetters, c) # 0 THEN 9 + IndexIn(HexLetters, c)
  ELSE 9 + IndexIn(HexCapitals, c)

\* s[from:] of Go (from is 0-based).
Drop(s, from) == SubSeq(s, from + 1, Len(s))

\* s[:to] of Go.
Take(s, to) == SubSeq(s, 1, to)

\* strings.HasPrefix
HasPrefix(s, p) == Len(s) >= Len(p) /\ Take(s, Len(p)) = p

\* strings.HasSuffix
HasSuffix(s, p) == Len(s) >= Len(p) /\ Drop(s, Len(s) - Len(p)) = p

\* strings.Contains
Contains(s, sub) ==
  \E i \in 0..(Len(s) - Len(sub)) : SubSeq(s, i + 1, i + Len(sub)) = sub

\* strings.IndexByte: the 0-based index of the first c in s, -1 when absent.
IndexByte(s, c) == IndexIn(s, c) - 1

\* strings.LastIndexByte
LastIndexByte(s, c) ==
  IF \E i \in 1..Len(s) : s[i] = c
  THEN (CHOOSE i \in 1..Len(s) : s[i] = c /\ \A j \in (i + 1)..Len(s) : s[j] # c) - 1
  ELSE -1

\* fmt.Sprintf("%d", n) for n >= 0.
RECURSIVE Itoa(_)
Itoa(n) == IF n < 10 THEN <<Digits[n + 1]>> ELSE Itoa(n \div 10) \o <<Digits[(n % 10) + 1]>>

\* ------------------------------------------------------------------------
\* Package net of the Go standard library, as used by isPrivateIPAddress
\* ------------------------------------------------------------------------

IPv4len == 4

IPv6len == 16

\* The overflow guard of dtoi and xtoi.
Big == 16777215

\* A nil net.IP (length 0).
NilIP == <<>>

Zeros(n) == [i \in 1..n |-> 0]

\* dtoi: the decimal number at the start of s, the characters consumed, ok.
RECURSIVE DtoiAt(_, _, _)
DtoiAt(s, i, n) ==
  IF i < Len(s) /\ IsDigit(s[i + 1])
  THEN LET m == n * 10 + DigitVal(s[i + 1])
       IN IF m >= Big THEN [n |-> Big, i |-> i, ok |-> FALSE] ELSE DtoiAt(s, i + 1, m)
  ELSE IF i = 0 THEN [n |-> 0, i |-> 0, ok |-> FALSE]
  ELSE [n |-> n, i |-> i, ok |-> TRUE]

dtoi(s) == DtoiAt(s, 0, 0)

\* xtoi: the hexadecimal number at the start of s.
RECURSIVE XtoiAt(_, _, _)
XtoiAt(s, i, n) ==
  IF i < Len(s) /\ IsHex(s[i + 1])
  THEN LET m == n * 16 + HexVal(s[i + 1])
       IN IF m >= Big THEN [n |-> 0, i |-> i, ok |-> FALSE] ELSE XtoiAt(s, i + 1, m)
  ELSE IF i = 0 THEN [n |-> 0, i |-> 0, ok |-> FALSE]
  ELSE [n |-> n, i |-> i, ok |-> TRUE]

xtoi(s) == XtoiAt(s, 0, 0)

\* net.IPv4(a, b, c, d): the 16-byte IPv4-mapped form.
IPv4(p) == Zeros(10) \o <<255, 255>> \o p

\* parseIPv4: four decimal fields of at most 255 without leading zeros,
\* separated by dots, and nothing after them.
RECURSIVE parseIPv4At(_, _, _)
parseIPv4At(s, i, p) ==
  IF i = IPv4len THEN (IF Len(s) # 0 THEN NilIP ELSE IPv4(p))
  ELSE IF Len(s) = 0 THEN NilIP
  ELSE IF i > 0 /\ s[1] # "." THEN NilIP
  ELSE LET s1 == IF i > 0 THEN Drop(s, 1) ELSE s
           r == dtoi(s1)
       IN IF ~r.ok \/ r.n > 255 THEN NilIP
          ELSE IF r.i > 1 /\ s1[1] = "0" THEN NilIP
          ELSE parseIPv4At(Drop(s1, r.i), i + 1, Append(p, r.n))

parseIPv4(s) == parseIPv4At(s, 0, <<>>)

\* The end of parseIPv6: the zeros of the ellipsis are inserted at its place.
ExpandEllipsis(ip, i, ellipsis) ==
  IF i < IPv6len
  THEN IF ellipsis < 0 THEN NilIP
       ELSE Take(ip, ellipsis) \o Zeros(IPv6len - i) \o SubSeq(ip, ellipsis + 1, i)
  ELSE IF ellipsis >= 0 THEN NilIP
  ELSE ip

\* The loop of parseIPv6: ip holds the i bytes parsed so far.
RECURSIVE parseIPv6At(_, _, _)
parseIPv6At(s, ip, ellipsis) ==
  LET i == Len(ip)
      r == xtoi(s)
  IN IF i >= IPv6len THEN (IF Len(s) # 0 THEN NilIP ELSE ExpandEllipsis(ip, i, ellipsis))
     ELSE IF ~r.ok \/ r.n > 65535 THEN NilIP
     ELSE IF r.i < Len(s) /\ s[r.i + 1] = "."
     THEN \* an IPv4 tail
          IF ellipsis < 0 /\ i # IPv6len - IPv4len THEN NilIP
          ELSE IF i + IPv4len > IPv6len THEN NilIP
          ELSE LET ip4 == parseIPv4(s)
               IN IF ip4 = NilIP THEN NilIP
                  ELSE ExpandEllipsis(ip \o SubSeq(ip4, 13, 16), i + IPv4len, ellipsis)
     ELSE LET ip1 == ip \o <<r.n \div 256, r.n % 256>>
              s1 == Drop(s, r.i)
          IN IF Len(s1) = 0 THEN ExpandEllipsis(ip1, i + 2, ellipsis)
             ELSE IF s1[1] # ":" \/ Len(s1) = 1 THEN NilIP
             ELSE LET s2 == Drop(s1, 1)
                  IN IF s2[1] = ":"
                     THEN IF ellipsis >= 0 THEN NilIP
                          ELSE IF Len(s2) = 1 THEN ExpandEllipsis(ip1, i + 2, i + 2)
                          ELSE parseIPv6At(Drop(s2, 1), ip1, i + 2)
                     ELSE parseIPv6At(s2, ip1, ellipsis)

parseIPv6(s) ==
  IF Len(s) >= 2 /\ s[1] = ":" /\ s[2] = ":"
  THEN IF Len(s) = 2 THEN Zeros(IPv6len) ELSE parseIPv6At(Drop(s, 2), <<>>, 0)
  ELSE parseIPv6At(s, <<>>, -1)

\* net.ParseIP: the first '.' or ':' of s decides the family; an address that
\* does not parse is the nil IP.
RECURSIVE ParseIPAt(_, _)
ParseIPAt(s, i) ==
  IF i > Len(s) THEN NilIP
  ELSE IF s[i] = "." THEN parseIPv4(s)
  ELSE IF s[i] = ":" THEN parseIPv6(s)
  ELSE ParseIPAt(s, i + 1)

ParseIP(s) == ParseIPAt(s, 1)

\* IP.To4: the 4-byte form of an IPv4 or IPv4-mapped address, else nil.
To4(ip) ==
  IF Len(ip) = IPv4len THEN ip
  ELSE IF Len(ip) = IPv6len /\ Take(ip, 10) = Zeros(10) /\ ip[11] = 255 /\ ip[12] = 255
  THEN SubSeq(ip, 13, 16)
  ELSE NilIP

\* a & b on bytes.
RECURSIVE BitAnd(_, _)
BitAnd(a, b) ==
  IF a = 0 \/ b = 0 THEN 0
  ELSE 2 * BitAnd(a \div 2, b \div 2) + (IF a % 2 = 1 /\ b % 2 = 1 THEN 1 ELSE 0)

\* The byte with its n leading bits set (0 <= n <= 8).
RECURSIVE Pow2(_)
Pow2(n) == IF n = 0 THEN 1 ELSE 2 * Pow2(n - 1)

LeadingOnes(n) == 256 - Pow2(8 - n)

\* net.CIDRMask(ones, bits)
CIDRMask(ones, bits) ==
  [i \in 1..(bits \div 8) |->
     IF ones >= 8 * i THEN 255
     ELSE IF ones <= 8 * (i - 1) THEN 0
     ELSE LeadingOnes(ones - 8 * (i - 1))]

\* IP.Mask for an address and a mask of the same length.
MaskIP(ip, mask) == [i \in 1..Len(ip) |-> BitAnd(ip[i], mask[i])]

\* A nil *net.IPNet.
NilNet == [IP |-> NilIP, Mask |-> <<>>]

\* net.ParseCIDR: the network of "address/prefix length".
ParseCIDR(s) ==
  LET i == IndexByte(s, "/")
      addr == Take(s, i)
      mask == Drop(s, i + 1)
      v4 == parseIPv4(addr)
      iplen == IF v4 # NilIP THEN IPv4len ELSE IPv6len
      ip == IF v4 # NilIP THEN To4(v4) ELSE parseIPv6(addr)
      r == dtoi(mask)
  IN IF i < 0 THEN NilNet
     ELSE IF ip = NilIP \/ ~r.ok \/ r.i # Len(mask) \/ r.n < 0 \/ r.n > 8 * iplen THEN NilNet
     ELSE LET m == CIDRMask(r.n, 8 * iplen)
          IN [IP |-> MaskIP(ip, m), Mask |-> m]

\* IPNet.Contains: false for a nil IP and for an address of the other family.
NetContains(n, ip) ==
  LET x == IF To4(ip) # NilIP THEN To4(ip) ELSE ip
  IN /\ Len(x) = Len(n.IP)
     /\ \A i \in 1..Len(x) : BitAnd(n.IP[i], n.Mask[i]) = BitAnd(x[i], n.Mask[i])

IPv6loopback == Zeros(15) \o <<1>>

\* IP.IsLoopback
IsLoopback(ip) ==
  IF To4(ip) # NilIP THEN To4(ip)[1] = 127 ELSE ip = IPv6loopback

\* IP.IsLinkLocalUnicast
IsLinkLocalUnicast(ip) ==
  IF To4(ip) # NilIP THEN To4(ip)[1] = 169 /\ To4(ip)[2] = 254
  ELSE Len(ip) = IPv6len /\ ip[1] = 254 /\ BitAnd(ip[2], 192) = 128

\* IP.IsLinkLocalMulticast
IsLinkLocalMulticast(ip) ==
  IF To4(ip) # NilIP THEN To4(ip)[1] = 224 /\ To4(ip)[2] = 0 /\ To4(ip)[3] = 0
  ELSE Len(ip) = IPv6len /\ ip[1] = 255 /\ BitAnd(ip[2], 15) = 2

\* ------------------------------------------------------------------------
\* The private-address classifier
\* ------------------------------------------------------------------------

\* The package constants the classifier and the network handler compare with.
AllZeros == <<"0", ".", "0", ".", "0", ".", "0">>

AzureIPAddress == <<"1", "6", "8", ".", "6", "3", ".", "1", "2", "9", ".", "1", "6">>

MetadataIPAddress ==
  <<"1", "6", "9", ".", "2", "5", "4", ".", "1", "6", "9", ".", "2", "5", "4">>

IPv6LoopbackLiteral == <<":", ":", "1">>

classAPrivateAddressRange == <<"1", "0", ".", "0", ".", "0", ".", "0", "/", "8">>

classBPrivateAddressRange == <<"1", "7", "2", ".", "1", "6", ".", "0", ".", "0", "/", "1", "2">>

classCPrivateAddressRange ==
  <<"1", "9", "2", ".", "1", "6", "8", ".", "0", ".", "0", "/", "1", "6">>

loopBackAddressRange == <<"1", "2", "7", ".", "0", ".", "0", ".", "0", "/", "8">>

ipv6LinkLocalAddressRange == <<"f", "e", "8", "0", ":", ":", "/", "1", "0">>

ipv6LocalAddressRange == <<"f", "c", "0", "0", ":", ":", "/", "7">>

SubnetNames == {"classA", "classB", "classC", "loopBack", "ipv6LinkLocal", "ipv6Local"}

\* The package-level subnet variables before the first call: all nil.
NilSubnets == [n \in SubnetNames |-> NilNet]

AddressRange(n) ==
  CASE n = "classA" -> classAPrivateAddressRange
    [] n = "classB" -> classBPrivateAddressRange
    [] n = "classC" -> classCPrivateAddressRange
    [] n = "loopBack" -> loopBackAddressRange
    [] n = "ipv6LinkLocal" -> ipv6LinkLocalAddressRange
    [] n = "ipv6Local" -> ipv6LocalAddressRange

\* The lazy initialisation at the head of isPrivateIPAddress: each subnet
\* variable that is still nil is parsed from its range.
InitSubnets(sn) ==
  [n \in SubnetNames |-> IF sn[n] = NilNet THEN ParseCIDR(AddressRange(n)) ELSE sn[n]]

\* InPrivateRanges without the check of lines 272-274.
InPrivateRangesWithoutClassB(ip, sn) ==
  \/ NetContains(sn["classA"], ip)
  \/ NetContains(sn["classC"], ip)
  \/ NetContains(sn["loopBack"], ip)
  \/ NetContains(sn["ipv6LinkLocal"], ip)
  \/ NetContains(sn["ipv6Local"], ip)

\* The range checks of isPrivateIPAddress, in the order of the code.
InPrivateRanges(ip, sn) ==
  \/ NetContains(sn["classA"], ip)
  \/ NetContains(sn["classB"], ip)
  \/ NetContains(sn["classC"], ip)
  \/ NetContains(sn["loopBack"], ip)
  \/ NetContains(sn["ipv6LinkLocal"], ip)
  \/ NetContains(sn["ipv6Local"], ip)

\* isPrivateIPAddress with a test of the result of net.ParseIP: a text that
\* is no address counts as private.
isPrivateIPAddressOrUnparsed(ipAddress, sn) ==
  IF ipAddress = AllZeros THEN TRUE
  ELSE LET ip == ParseIP(ipAddress)
           nets == InitSubnets(sn)
       IN \/ ip = NilIP
          \/ InPrivateRanges(ip, nets)
          \/ IsLoopback(ip) \/ IsLinkLocalUnicast(ip) \/ IsLinkLocalMulticast(ip)

\* The result of isPrivateIPAddress(ipAddress) with the subnet variables sn.
isPrivateIPAddress(ipAddress, sn) ==
  IF ipAddress = AllZeros THEN TRUE
  ELSE LET ip == ParseIP(ipAddress)
           nets == InitSubnets(sn)
       IN \/ InPrivateRanges(ip, nets)
          \/ IsLoopback(ip) \/ IsLinkLocalUnicast(ip) \/ IsLinkLocalMulticast(ip)

\* The subnet variables after isPrivateIPAddress(ipAddress): the all-zeros
\* literal returns before the initialisation.
SubnetsAfter(ipAddress, sn) ==
  IF ipAddress = AllZeros THEN sn ELSE InitSubnets(sn)

\* ------------------------------------------------------------------------
\* Packages path and path/filepath, as used by the file handler and by
\* GetToolChain
\* ------------------------------------------------------------------------

\* strings.Split(s, "/")
RECURSIVE SplitSlash(_)
SplitSlash(s) ==
  LET i == IndexByte(s, "/")
  IN IF i < 0 THEN <<s>> ELSE <<Take(s, i)>> \o SplitSlash(Drop(s, i + 1))

\* strings.Join(elems, "/")
RECURSIVE JoinSlash(_)
JoinSlash(elems) ==
  IF Len(elems) = 0 THEN <<>>
  ELSE IF Len(elems) = 1 THEN elems[1]
  ELSE elems[1] \o <<"/">> \o JoinSlash(Tail(elems))

\* The elements path.Clean keeps: empty and "." elements are dropped, ".."
\* removes the element before it, and is itself dropped at the root.
RECURSIVE CleanElems(_, _, _)
CleanElems(elems, kept, rooted) ==
  IF Len(elems) = 0 THEN kept
  ELSE LET e == elems[1]
           rest == Tail(elems)
       IN IF e = <<>> \/ e = <<".">> THEN CleanElems(rest, kept, rooted)
          ELSE IF e = <<".", ".">>
          THEN IF Len(kept) > 0 /\ kept[Len(kept)] # <<".", ".">>
               THEN CleanElems(rest, Take(kept, Len(kept) - 1), rooted)
               ELSE IF rooted THEN CleanElems(rest, kept, rooted)
               ELSE CleanElems(rest, Append(kept, e), rooted)
          ELSE CleanElems(rest, Append(kept, e), rooted)

\* path.Clean
Clean(p) ==
  IF Len(p) = 0 THEN <<".">>
  ELSE LET rooted == p[1] = "/"
           out == (IF rooted THEN <<"/">> ELSE <<>>)
                    \o JoinSlash(CleanElems(SplitSlash(p), <<>>, rooted))
       IN IF Len(out) = 0 THEN <<".">> ELSE out

\* path.Join(a, b): the non-empty elements joined by a slash, and cleaned.
Join(a, b) ==
  IF Len(a) = 0 /\ Len(b) = 0 THEN <<>>
  ELSE IF Len(a) = 0 THEN Clean(b)
  ELSE IF Len(b) = 0 THEN Clean(a)
  ELSE Clean(a \o <<"/">> \o b)

\* path.Ext: from the last dot of the last element, "" when it has none.
Ext(p) ==
  LET slash == LastIndexByte(p, "/")
      dot == LastIndexByte(p, ".")
  IN IF dot >= 0 /\ dot > slash THEN Drop(p, dot) ELSE <<>>

\* The path without its trailing slashes.
RECURSIVE StripSlashes(_)
StripSlashes(p) ==
  IF Len(p) > 0 /\ p[Len(p)] = "/" THEN StripSlashes(Take(p, Len(p) - 1)) ELSE p

\* filepath.Base
Base(p) ==
  IF Len(p) = 0 THEN <<".">>
  ELSE LET q == StripSlashes(p)
           r == Drop(q, LastIndexByte(q, "/") + 1)
       IN IF Len(r) = 0 THEN <<"/">> ELSE r

\* ------------------------------------------------------------------------
\* Events, and the collaborators of the engine
\* ------------------------------------------------------------------------

netMonitorTag == "netmon"

fileMonitorTag == "filemon"

processMonitorTag == "procmon"

\* The zero value of the Event struct: every field is the empty string.
ZeroEvent ==
  [EventType |-> "", Pid |-> <<>>, PPid |-> <<>>, Exe |-> <<>>, FileName |-> <<>>,
   Path |-> <<>>, Syscall |-> "", IPAddress |-> <<>>, Port |-> <<>>,
   ProcessArguments |-> <<>>]

\* Go maps: a function whose domain is the set of keys.
EmptyMap == <<>>

Found(m, k) == k \in DOMAIN m

MapPut(m, k, v) == [x \in DOMAIN m \cup {k} |-> IF x = k THEN v ELSE m[x]]

\* getProgramChecksum: the hash of the file's content, or the text of the
\* error of os.Open as the checksum when the file cannot be read.
getProgramChecksum(path, files) ==
  IF path \in files THEN [sum |-> <<"sha256">> \o path, err |-> FALSE]
  ELSE [sum |-> <<"open">> \o path, err |-> TRUE]

\* The Tool of GetToolChain for one executable; its Parent is the next
\* element of the chain.
NewTool(exe, files) == [Name |-> Base(exe), SHA256 |-> getProgramChecksum(exe, files).sum]

\* The Tool of a container image.
ImageTool(image) == [Name |-> image, SHA256 |-> image]

\* getParentProcessId and getProcessExe on the processes the OS knows.
getParentProcessId(pid, procs) ==
  IF Found(procs, pid) THEN [ppid |-> procs[pid].PPid, err |-> FALSE]
  ELSE [ppid |-> 0, err |-> TRUE]

getProcessExe(pid, procs) ==
  IF Found(procs, pid) /\ procs[pid].ExeOk THEN [path |-> procs[pid].Exe, err |-> FALSE]
  ELSE [path |-> <<>>, err |-> TRUE]

\* ------------------------------------------------------------------------
\* The file handler's tests
\* ------------------------------------------------------------------------

PostEventJson ==
  <<"p", "o", "s", "t", "_", "e", "v", "e", "n", "t", ".", "j", "s", "o", "n">>

NodeModulesDir ==
  <<"/", "n", "o", "d", "e", "_", "m", "o", "d", "u", "l", "e", "s", "/">>

DotJs == <<".", "j", "s">>

GitObjects == <<".", "g", "i", "t", "/", "o", "b", "j", "e", "c", "t", "s">>

\* Lines 39-41: a file name that is not absolute is joined to the event's path.
NormalizedFileName(e) ==
  IF ~HasPrefix(e.FileName, <<"/">>) THEN Join(e.Path, e.FileName) ELSE e.FileName

\* Lines 54-59: the file type of a path, "" when it has none.
ClassifyFile(fileName) ==
  IF Contains(fileName, NodeModulesDir) /\ HasSuffix(fileName, DotJs) THEN "Dependencies"
  ELSE IF Contains(fileName, GitObjects) THEN "Source Code"
  ELSE ""

\* FileTypeFor without the test of line 52.
FileTypeForAnyPid(fileMap, pid, fileName) == ClassifyFile(fileName)

\* Lines 50-59: a pid that is in ProcessFileMap is not classified again.
FileTypeFor(fileMap, pid, fileName) ==
  IF ~Found(fileMap, pid) THEN ClassifyFile(fileName) ELSE ""

\* isSyscallExcluded without "unlink".
isSyscallExcludedWithoutUnlink(syscall) ==
  syscall = "chmod" \/ syscall = "unlinkat"

isSyscallExcluded(syscall) ==
  syscall = "chmod" \/ syscall = "unlink" \/ syscall = "unlinkat"

sourceCodeExtensions ==
  << <<".", "c">>, <<"c", "p", "p">>, <<"c", "s">>, <<".", "g", "o">>,
     <<".", "j", "a", "v", "a">>, <<".", "j", "s">>, <<".", "p", "h", "p">>, <<"p", "y">>,
     <<".", "r", "b">>, <<".", "r", "s">>, <<".", "s", "c", "a", "l", "a">>, <<".", "s", "c">>,
     <<".", "s", "h">>, <<".", "t", "s">> >>

isSourceCodeFile(fileName) ==
  \E i \in 1..Len(sourceCodeExtensions) : Ext(fileName) = sourceCodeExtensions[i]

\* Line 68: whether the event enters the source-file write tracking.
IsTracked(e) == isSourceCodeFile(e.FileName) /\ ~isSyscallExcluded(e.Syscall)

\* Lines 74-79: a recorded write of the file is by another pid than the event's.
IsFromDifferentProcess(writes, e) ==
  \E i \in 1..Len(writes) : writes[i].Pid # e.Pid

\* Lines 68-86: whether the event's write is reported as tampering.
IsOverwrite(srcMap, e) ==
  IsTracked(e) /\ Found(srcMap, e.FileName) /\ IsFromDifferentProcess(srcMap[e.FileName], e)

\* Lines 68-86: SourceCodeMap after the event.
SourceCodeMapAfter(srcMap, e) ==
  IF ~IsTracked(e) THEN srcMap
  ELSE IF ~Found(srcMap, e.FileName) THEN MapPut(srcMap, e.FileName, <<e>>)
  ELSE IF IsFromDifferentProcess(srcMap[e.FileName], e)
  THEN MapPut(srcMap, e.FileName, Append(srcMap[e.FileName], e))
  ELSE srcMap

\* ------------------------------------------------------------------------
\* The network handler's tests
\* ------------------------------------------------------------------------

\* IsReportable without the comparison of line 129.
IsReportableWithoutAzure(ipAddress, sn) ==
  /\ ~isPrivateIPAddress(ipAddress, sn)
  /\ ipAddress # IPv6LoopbackLiteral
  /\ ipAddress # MetadataIPAddress

\* Lines 127-130: the addresses that are reported.
IsReportable(ipAddress, sn) ==
  /\ ~isPrivateIPAddress(ipAddress, sn)
  /\ ipAddress # IPv6LoopbackLiteral
  /\ ipAddress # AzureIPAddress
  /\ ipAddress # MetadataIPAddress

\* Line 132: fmt.Sprintf("%s%s%s", event.Pid, event.IPAddress, event.Port)
CacheKey(e) == e.Pid \o e.IPAddress \o e.Port

\* ConnectionMapAfter without the assignment of line 150.
ConnectionMapUnmarked(connMap, e) == connMap

\* Line 150: ProcessConnectionMap after the connection of e is sent.
ConnectionMapAfter(connMap, e) == MapPut(connMap, CacheKey(e), TRUE)

\* ------------------------------------------------------------------------
\* The process handler
\* ------------------------------------------------------------------------

NewProcess(e) ==
  [PID |-> e.Pid, PPid |-> e.PPid, Exe |-> e.Exe, Arguments |-> e.ProcessArguments]

\* ProcessMapAfter without the test of line 117: the last event wins.
ProcessMapOverwritten(procMap, e) == MapPut(procMap, e.Pid, NewProcess(e))

\* Lines 115-119: ProcessMap after a process event.
ProcessMapAfter(procMap, e) ==
  IF ~Found(procMap, e.Pid) THEN MapPut(procMap, e.Pid, NewProcess(e)) ELSE procMap

\* HandlerOf with the process handler as the default case of the switch.
HandlerOfWithDefault(eventType) ==
  CASE eventType = netMonitorTag -> "handleNetworkEvent"
    [] eventType = fileMonitorTag -> "handleFileEvent"
    [] OTHER -> "handleProcessEvent"

\* Lines 158-165: the handler of an event type, "idle" when the switch has no
\* case for it.
HandlerOf(eventType) ==
  CASE eventType = netMonitorTag -> "handleNetworkEvent"
    [] eventType = fileMonitorTag -> "handleFileEvent"
    [] eventType = processMonitorTag -> "handleProcessEvent"
    [] OTHER -> "idle"

\* ------------------------------------------------------------------------
\* Bounds
\* ------------------------------------------------------------------------

\* The number of HandleEvent calls of a behaviour.
MaxEvents == 4

\* The length from which the tool chain under construction is no longer
\* extended (the recursion itself goes on).
MaxChain == 6

\* The concurrent producers that call HandleEvent.
Producers == {"t1", "t2"}

\* No producer: the value of a mutex that is not held.
Free == "free"

\* ------------------------------------------------------------------------
\* State
\* ------------------------------------------------------------------------

VARIABLES
  ProcessConnectionMap,  \* EventHandler.ProcessConnectionMap
  ProcessFileMap,        \* EventHandler.ProcessFileMap
  ProcessMap,            \* EventHandler.ProcessMap
  SourceCodeMap,         \* EventHandler.SourceCodeMap
  netMutex,              \* the holder of EventHandler.netMutex, or Free
  fileMutex,             \* the holder of EventHandler.fileMutex, or Free
  procMutex,             \* the holder of EventHandler.procMutex, or Free
  subnets,               \* the package-level subnet variables
  pc,                    \* where each producer is in its HandleEvent call
  event,                 \* the Event each producer's call was given
  fileType,              \* handleFileEvent's local fileType
  ppidArg,               \* GetToolChain's argument ppid, innermost call
  exeArg,                \* GetToolChain's argument exe, innermost call
  chain,                 \* the Tools built so far, the outermost call's first
  ret,                   \* the handler step GetToolChain returns to
  osProcs,               \* the processes the OS lookups answer for
  files,                 \* the executables that can be read
  fileEvents,            \* the calls of ApiClient.sendFileEvent, in order
  netConnections,        \* the calls of ApiClient.sendNetConnection, in order
  annotations,           \* the calls of WriteAnnotation, in order
  doneSignals,           \* the number of writeDone calls
  calls,                 \* the number of HandleEvent calls
  arg,                   \* the argument of the function under test
  res                    \* its result, <<>> before the call

engineVars == <<ProcessConnectionMap, ProcessFileMap, ProcessMap, SourceCodeMap>>

mutexVars == <<netMutex, fileMutex, procMutex>>

callVars == <<pc, event, fileType, ppidArg, exeArg, chain, ret>>

envVars == <<osProcs, files>>

logVars == <<fileEvents, netConnections, annotations, doneSignals>>

testVars == <<arg, res>>

vars == <<engineVars, mutexVars, subnets, callVars, envVars, logVars, calls, testVars>>

\* The EventHandler with the process table procMap and its other maps
\* empty, before any call.
InitWith(procMap) ==
  /\ ProcessConnectionMap = EmptyMap
  /\ ProcessFileMap = EmptyMap
  /\ ProcessMap = procMap
  /\ SourceCodeMap = EmptyMap
  /\ netMutex = Free /\ fileMutex = Free /\ procMutex = Free
  /\ subnets = NilSubnets
  /\ pc = [p \in Producers |-> "idle"]
  /\ event = [p \in Producers |-> ZeroEvent]
  /\ fileType = [p \in Producers |-> ""]
  /\ ppidArg = [p \in Producers |-> <<>>]
  /\ exeArg = [p \in Producers |-> <<>>]
  /\ chain = [p \in Producers |-> <<>>]
  /\ ret = [p \in Producers |-> ""]
  /\ fileEvents = <<>>
  /\ netConnections = <<>>
  /\ annotations = <<>>
  /\ doneSignals = 0
  /\ calls = 0

\* The state after construction of the EventHandler: every map is empty.
InitEngine == InitWith(EmptyMap)

\* ------------------------------------------------------------------------
\* HandleEvent and the process handler
\* ------------------------------------------------------------------------

\* The end of a HandleEvent call: the producer's locals are dropped.
Return(p) ==
  /\ pc' = [pc EXCEPT ![p] = "idle"]
  /\ event' = [event EXCEPT ![p] = ZeroEvent]
  /\ fileType' = [fileType EXCEPT ![p] = ""]
  /\ ppidArg' = [ppidArg EXCEPT ![p] = <<>>]
  /\ exeArg' = [exeArg EXCEPT ![p] = <<>>]
  /\ chain' = [chain EXCEPT ![p] = <<>>]
  /\ ret' = [ret EXCEPT ![p] = ""]

\* The call eventHandler.GetToolChain(ppid, exe) from a handler that goes on
\* at step next.
CallGetToolChain(p, ppid, exe, next) ==
  /\ pc' = [pc EXCEPT ![p] = "GetToolChain"]
  /\ ppidArg' = [ppidArg EXCEPT ![p] = ppid]
  /\ exeArg' = [exeArg EXCEPT ![p] = exe]
  /\ chain' = [chain EXCEPT ![p] = <<>>]
  /\ ret' = [ret EXCEPT ![p] = next]

\* A producer calls HandleEvent(e).
CallHandleEvent(p, e) ==
  /\ pc[p] = "idle"
  /\ calls < MaxEvents
  /\ calls' = calls + 1
  /\ pc' = [pc EXCEPT ![p] = "HandleEvent"]
  /\ event' = [event EXCEPT ![p] = e]
  /\ UNCHANGED <<engineVars, mutexVars, subnets, fileType, ppidArg, exeArg, chain,
                 ret, envVars, logVars, testVars>>

\* Lines 157-166: the switch on the event type calls the type's handler; an
\* event type without a case returns.
HandleEvent(p) ==
  /\ pc[p] = "HandleEvent"
  /\ IF HandlerOf(event[p].EventType) = "idle"
     THEN Return(p)
     ELSE /\ pc' = [pc EXCEPT ![p] = HandlerOf(event[p].EventType)]
          /\ UNCHANGED <<event, fileType, ppidArg, exeArg, chain, ret>>
  /\ UNCHANGED <<engineVars, mutexVars, subnets, envVars, logVars, calls, testVars>>

\* Lines 112-122: the insert under procMutex.
handleProcessEvent(p) ==
  /\ pc[p] = "handleProcessEvent"
  /\ procMutex = Free
  /\ ProcessMap' = ProcessMapAfter(ProcessMap, event[p])
  /\ Return(p)
  /\ UNCHANGED <<ProcessConnectionMap, ProcessFileMap, SourceCodeMap, mutexVars, subnets,
                 envVars, logVars, calls, testVars>>

\* ------------------------------------------------------------------------
\* GetToolChain
\* ------------------------------------------------------------------------

\* The chain with one more Tool; from MaxChain Tools on it is left as it is.
Extend(c, tool) == IF Len(c) < MaxChain THEN Append(c, tool) ELSE c

\* Lines 212-216: the Tool of this call is built and procMutex is locked.
GetToolChain(p) ==
  /\ pc[p] = "GetToolChain"
  /\ procMutex = Free
  /\ procMutex' = p
  /\ chain' = [chain EXCEPT ![p] = Extend(chain[p], NewTool(exeArg[p], files))]
  /\ pc' = [pc EXCEPT ![p] = "lookupParent"]
  /\ UNCHANGED <<engineVars, netMutex, fileMutex, subnets, event, fileType, ppidArg, exeArg,
                 ret, envVars, logVars, calls, testVars>>

\* lookupParent with the Unlock of line 218 only on the path that recurses
\* through the table: the OS lookups of lines 226-236 run with procMutex held.
lookupParentLockedAcrossOS(p) ==
  /\ pc[p] = "lookupParent"
  /\ IF Found(ProcessMap, ppidArg[p])
     THEN /\ ppidArg' = [ppidArg EXCEPT ![p] = ProcessMap[ppidArg[p]].PPid]
          /\ exeArg' = [exeArg EXCEPT ![p] = ProcessMap[ppidArg[p]].Exe]
          /\ pc' = [pc EXCEPT ![p] = "GetToolChain"]
          /\ procMutex' = Free
     ELSE /\ pc' = [pc EXCEPT ![p] = "lookupOS"]
          /\ UNCHANGED <<ppidArg, exeArg, procMutex>>
  /\ UNCHANGED <<engineVars, netMutex, fileMutex, subnets, event, fileType, chain, ret,
                 envVars, logVars, calls, testVars>>

\* lookupParent with the Unlock of line 218 left out on the path that
\* recurses through the table: the next call's Lock finds procMutex held by
\* its own caller.
lookupParentLockedInRecursion(p) ==
  /\ pc[p] = "lookupParent"
  /\ IF Found(ProcessMap, ppidArg[p])
     THEN /\ ppidArg' = [ppidArg EXCEPT ![p] = ProcessMap[ppidArg[p]].PPid]
          /\ exeArg' = [exeArg EXCEPT ![p] = ProcessMap[ppidArg[p]].Exe]
          /\ pc' = [pc EXCEPT ![p] = "GetToolChain"]
          /\ UNCHANGED procMutex
     ELSE /\ pc' = [pc EXCEPT ![p] = "lookupOS"]
          /\ procMutex' = Free
          /\ UNCHANGED <<ppidArg, exeArg>>
  /\ UNCHANGED <<engineVars, netMutex, fileMutex, subnets, event, fileType, chain, ret,
                 envVars, logVars, calls, testVars>>

\* Lines 217-223: the parent is read from ProcessMap and procMutex unlocked;
\* a parent that is found is the next call's process.
lookupParent(p) ==
  /\ pc[p] = "lookupParent"
  /\ procMutex' = Free
  /\ IF Found(ProcessMap, ppidArg[p])
     THEN /\ ppidArg' = [ppidArg EXCEPT ![p] = ProcessMap[ppidArg[p]].PPid]
          /\ exeArg' = [exeArg EXCEPT ![p] = ProcessMap[ppidArg[p]].Exe]
          /\ pc' = [pc EXCEPT ![p] = "GetToolChain"]
     ELSE /\ pc' = [pc EXCEPT ![p] = "lookupOS"]
          /\ UNCHANGED <<ppidArg, exeArg>>
  /\ UNCHANGED <<engineVars, netMutex, fileMutex, subnets, event, fileType, chain, ret,
                 envVars, logVars, calls, testVars>>

\* lookupOS without the recursive call of line 236: the chain ends at the
\* first process the table does not hold.
lookupOSWithoutRecursion(p) ==
  /\ pc[p] = "lookupOS"
  /\ pc' = [pc EXCEPT ![p] = ret[p]]
  /\ UNCHANGED <<engineVars, mutexVars, subnets, event, fileType, ppidArg, exeArg, chain,
                 ret, envVars, logVars, calls, testVars>>

\* lookupOS with the recursive call of line 236 given ppid again instead of
\* the parent's pid.
lookupOSWithSamePid(p) ==
  /\ pc[p] = "lookupOS"
  /\ LET parent == getParentProcessId(ppidArg[p], osProcs)
         path == getProcessExe(ppidArg[p], osProcs)
     IN IF parent.err \/ path.err
        THEN /\ pc' = [pc EXCEPT ![p] = ret[p]]
             /\ UNCHANGED <<ppidArg, exeArg>>
        ELSE /\ exeArg' = [exeArg EXCEPT ![p] = path.path]
             /\ pc' = [pc EXCEPT ![p] = "GetToolChain"]
             /\ UNCHANGED ppidArg
  /\ UNCHANGED <<engineVars, mutexVars, subnets, event, fileType, chain, ret, envVars,
                 logVars, calls, testVars>>

\* Lines 225-238: the OS is asked for the parent's parent and executable; a
\* failed lookup ends the chain, and every call on the stack returns.
lookupOS(p) ==
  /\ pc[p] = "lookupOS"
  /\ LET parent == getParentProcessId(ppidArg[p], osProcs)
         path == getProcessExe(ppidArg[p], osProcs)
     IN IF parent.err \/ path.err
        THEN /\ pc' = [pc EXCEPT ![p] = ret[p]]
             /\ UNCHANGED <<ppidArg, exeArg>>
        ELSE /\ ppidArg' = [ppidArg EXCEPT ![p] = Itoa(parent.ppid)]
             /\ exeArg' = [exeArg EXCEPT ![p] = path.path]
             /\ pc' = [pc EXCEPT ![p] = "GetToolChain"]
  /\ UNCHANGED <<engineVars, mutexVars, subnets, event, fileType, chain, ret, envVars,
                 logVars, calls, testVars>>

\* ------------------------------------------------------------------------
\* The file handler
\* ------------------------------------------------------------------------

\* handleFileEvent without the wait for fileMutex of line 37: the handler
\* enters while another producer is inside.
handleFileEventWithoutLock(p) ==
  /\ pc[p] = "handleFileEvent"
  /\ fileMutex' = p
  /\ LET fileName == NormalizedFileName(event[p])
         type == FileTypeFor(ProcessFileMap, event[p].Pid, fileName)
     IN /\ event' = [event EXCEPT ![p].FileName = fileName]
        /\ doneSignals' = IF Contains(fileName, PostEventJson)
                          THEN doneSignals + 1 ELSE doneSignals
        /\ fileType' = [fileType EXCEPT ![p] = type]
        /\ IF type # ""
           THEN CallGetToolChain(p, event[p].PPid, event[p].Exe, "sendFileEvent")
           ELSE /\ pc' = [pc EXCEPT ![p] = "trackSourceCode"]
                /\ UNCHANGED <<ppidArg, exeArg, chain, ret>>
  /\ UNCHANGED <<engineVars, netMutex, procMutex, subnets, envVars, fileEvents,
                 netConnections, annotations, calls, testVars>>

\* Lines 36-61: fileMutex is locked, the file name is normalised in the
\* event, the marker file gives the done signal, and the file type of the
\* event is decided; an event with a file type calls GetToolChain.
handleFileEvent(p) ==
  /\ pc[p] = "handleFileEvent"
  /\ fileMutex = Free
  /\ fileMutex' = p
  /\ LET fileName == NormalizedFileName(event[p])
         type == FileTypeFor(ProcessFileMap, event[p].Pid, fileName)
     IN /\ event' = [event EXCEPT ![p].FileName = fileName]
        /\ doneSignals' = IF Contains(fileName, PostEventJson)
                          THEN doneSignals + 1 ELSE doneSignals
        /\ fileType' = [fileType EXCEPT ![p] = type]
        /\ IF type # ""
           THEN CallGetToolChain(p, event[p].PPid, event[p].Exe, "sendFileEvent")
           ELSE /\ pc' = [pc EXCEPT ![p] = "trackSourceCode"]
                /\ UNCHANGED <<ppidArg, exeArg, chain, ret>>
  /\ UNCHANGED <<engineVars, netMutex, procMutex, subnets, envVars, fileEvents,
                 netConnections, annotations, calls, testVars>>

\* sendFileEvent with a return after line 64: an event that was classified
\* and reported unlocks fileMutex and skips lines 68-86.
sendFileEventAndReturn(p) ==
  /\ pc[p] = "sendFileEvent"
  /\ fileEvents' = Append(fileEvents,
                          [Pid |-> event[p].Pid, FileName |-> event[p].FileName,
                           FileType |-> fileType[p], Tool |-> chain[p]])
  /\ ProcessFileMap' = MapPut(ProcessFileMap, event[p].Pid, TRUE)
  /\ fileMutex' = Free
  /\ Return(p)
  /\ UNCHANGED <<ProcessConnectionMap, ProcessMap, SourceCodeMap, netMutex, procMutex,
                 subnets, envVars, netConnections, annotations, doneSignals, calls,
                 testVars>>

\* Lines 62-64: the file event is sent with the tool chain and the pid is
\* marked in ProcessFileMap.
sendFileEvent(p) ==
  /\ pc[p] = "sendFileEvent"
  /\ fileEvents' = Append(fileEvents,
                          [Pid |-> event[p].Pid, FileName |-> event[p].FileName,
                           FileType |-> fileType[p], Tool |-> chain[p]])
  /\ ProcessFileMap' = MapPut(ProcessFileMap, event[p].Pid, TRUE)
  /\ pc' = [pc EXCEPT ![p] = "trackSourceCode"]
  /\ UNCHANGED <<ProcessConnectionMap, ProcessMap, SourceCodeMap, mutexVars, subnets, event,
                 fileType, ppidArg, exeArg, chain, ret, envVars, netConnections,
                 annotations, doneSignals, calls, testVars>>

\* The annotation of line 83.
Annotation(e) ==
  [FileName |-> e.FileName, Syscall |-> e.Syscall, Exe |-> e.Exe, Pid |-> e.Pid]

\* Lines 68-89: the write is recorded in SourceCodeMap, a write by another
\* process is annotated, and fileMutex is unlocked.
trackSourceCode(p) ==
  /\ pc[p] = "trackSourceCode"
  /\ SourceCodeMap' = SourceCodeMapAfter(SourceCodeMap, event[p])
  /\ annotations' = IF IsOverwrite(SourceCodeMap, event[p])
                    THEN Append(annotations, Annotation(event[p])) ELSE annotations
  /\ fileMutex' = Free
  /\ Return(p)
  /\ UNCHANGED <<ProcessConnectionMap, ProcessFileMap, ProcessMap, netMutex, procMutex,
                 subnets, envVars, fileEvents, netConnections, doneSignals, calls, testVars>>

\* ------------------------------------------------------------------------
\* The network handler
\* ------------------------------------------------------------------------

\* The answers of GetContainerByPid: no container, or the container's image.
ContainerImages == {<<>>, <<"i", "m", "g">>}

\* The answers of DNSProxy.GetReverseIPLookup.
HostNames == {<<>>, <<"h", ".", "t", "l", "d">>}

\* DirectTool without the else branch of lines 144-146: the container's
\* image is not made the tool.
DirectToolWithoutImage(image) == <<>>

\* Lines 136-146: the tool of a connection when GetToolChain is not called.
DirectTool(image) == IF image = <<>> THEN <<>> ELSE <<ImageTool(image)>>

\* Lines 124-146: netMutex is locked; an address that is not reportable and a
\* key that is in ProcessConnectionMap unlock it and return; else the tool is
\* the container image's, or GetToolChain's when the pid has no container
\* and the event has an executable.
handleNetworkEvent(p) ==
  /\ pc[p] = "handleNetworkEvent"
  /\ netMutex = Free
  /\ subnets' = SubnetsAfter(event[p].IPAddress, subnets)
  /\ IF IsReportable(event[p].IPAddress, subnets)
        /\ ~Found(ProcessConnectionMap, CacheKey(event[p]))
     THEN /\ netMutex' = p
          /\ \E image \in ContainerImages :
               IF image = <<>> /\ event[p].Exe # <<>>
               THEN CallGetToolChain(p, event[p].PPid, event[p].Exe, "sendNetConnection")
               ELSE /\ pc' = [pc EXCEPT ![p] = "sendNetConnection"]
                    /\ chain' = [chain EXCEPT ![p] = DirectTool(image)]
                    /\ UNCHANGED <<ppidArg, exeArg, ret>>
          /\ UNCHANGED <<event, fileType>>
     ELSE /\ Return(p)
          /\ UNCHANGED netMutex
  /\ UNCHANGED <<engineVars, fileMutex, procMutex, envVars, logVars, calls, testVars>>

\* Lines 148-154: the connection is sent with the reverse lookup's host name
\* and the tool, the key is marked, and netMutex is unlocked.
sendNetConnection(p) ==
  /\ pc[p] = "sendNetConnection"
  /\ \E host \in HostNames :
       netConnections' = Append(netConnections,
                                [Pid |-> event[p].Pid, IPAddress |-> event[p].IPAddress,
                                 Port |-> event[p].Port, Host |-> host, Tool |-> chain[p]])
  /\ ProcessConnectionMap' = ConnectionMapAfter(ProcessConnectionMap, event[p])
  /\ netMutex' = Free
  /\ Return(p)
  /\ UNCHANGED <<ProcessFileMap, ProcessMap, SourceCodeMap, fileMutex, procMutex, subnets,
                 envVars, fileEvents, annotations, doneSignals, calls, testVars>>

\* ------------------------------------------------------------------------
\* The inputs: pids, executables, files, addresses and the events made of
\* them
\* ------------------------------------------------------------------------

Pid1 == <<"1">>

Pid100 == <<"1", "0", "0">>

Pid200 == <<"2", "0", "0">>

ShExe == <<"/", "b", "i", "n", "/", "s", "h">>

NpmExe == <<"/", "b", "i", "n", "/", "n", "p", "m">>

InitExe == <<"/", "s", "b", "i", "n", "/", "i", "n", "i", "t">>

MainGo == <<"/", "w", "/", "m", "a", "i", "n", ".", "g", "o">>

GitObject ==
  <<"/", "w", "/", ".", "g", "i", "t", "/", "o", "b", "j", "e", "c", "t", "s", "/", "a", "b">>

ModulesPath == <<"/", "w", "/", "n", "o", "d", "e", "_", "m", "o", "d", "u", "l", "e", "s">>

IndexJs == <<"x", ".", "j", "s">>

PublicIP == <<"8", ".", "8", ".", "8", ".", "8">>

PrivateIP == <<"1", "0", ".", "1", ".", "2", ".", "3">>

Port443 == <<"4", "4", "3">>

Port80 == <<"8", "0">>

ProcessEvent(pid, ppid, exe, args) ==
  [ZeroEvent EXCEPT !.EventType = processMonitorTag, !.Pid = pid, !.PPid = ppid,
                    !.Exe = exe, !.ProcessArguments = args]

FileEvent(pid, ppid, exe, fileName, path, syscall) ==
  [ZeroEvent EXCEPT !.EventType = fileMonitorTag, !.Pid = pid, !.PPid = ppid, !.Exe = exe,
                    !.FileName = fileName, !.Path = path, !.Syscall = syscall]

NetworkEvent(pid, ppid, exe, ip, port) ==
  [ZeroEvent EXCEPT !.EventType = netMonitorTag, !.Pid = pid, !.PPid = ppid, !.Exe = exe,
                    !.IPAddress = ip, !.Port = port]

\* Process events: two for pid 100 that differ in parent, executable and
\* arguments, one whose pid is its own parent, and one that makes pids 100
\* and 200 each other's parent.
ProcessEvents ==
  { ProcessEvent(Pid100, Pid1, ShExe, <<"-", "c">>),
    ProcessEvent(Pid100, Pid200, NpmExe, <<>>),
    ProcessEvent(Pid200, Pid100, NpmExe, <<"c", "i">>),
    ProcessEvent(Pid200, Pid200, ShExe, <<>>) }

\* Process events of pid 100 and of its child 200.
AncestorEvents ==
  { ProcessEvent(Pid100, Pid1, ShExe, <<"-", "c">>),
    ProcessEvent(Pid200, Pid100, NpmExe, <<"c", "i">>) }

\* File events: writes of one source file by two pids, a chmod, an unlink
\* and an unlinkat of it, a relative name under node_modules, and a git object.
FileEvents ==
  { FileEvent(Pid100, Pid1, ShExe, MainGo, <<>>, "write"),
    FileEvent(Pid200, Pid100, NpmExe, MainGo, <<>>, "write"),
    FileEvent(Pid200, Pid100, NpmExe, MainGo, <<>>, "chmod"),
    FileEvent(Pid100, Pid1, ShExe, MainGo, <<>>, "unlink"),
    FileEvent(Pid200, Pid100, NpmExe, MainGo, <<>>, "unlinkat"),
    FileEvent(Pid100, Pid1, ShExe, IndexJs, ModulesPath, "write"),
    FileEvent(Pid200, Pid100, NpmExe, GitObject, <<>>, "openat") }

\* Network events: a public address from two pids, one of them without
\* executable, and each kind of address that is dropped.
NetworkEvents ==
  { NetworkEvent(Pid100, Pid1, ShExe, PublicIP, Port443),
    NetworkEvent(Pid200, Pid100, <<>>, PublicIP, Port443),
    NetworkEvent(Pid100, Pid1, ShExe, PrivateIP, Port443),
    NetworkEvent(Pid100, Pid1, ShExe, AllZeros, Port443),
    NetworkEvent(Pid200, Pid100, NpmExe, IPv6LoopbackLiteral, Port80),
    NetworkEvent(Pid100, Pid1, ShExe, AzureIPAddress, Port80),
    NetworkEvent(Pid200, Pid100, NpmExe, MetadataIPAddress, Port80) }

\* An event of a type HandleEvent has no case for.
UnknownEvents ==
  { [ProcessEvent(Pid100, Pid1, ShExe, <<>>) EXCEPT !.EventType = "dnsmon"] }

Events == ProcessEvents \cup FileEvents \cup NetworkEvents \cup UnknownEvents

\* The OS knows no process, or pid 1 with parent 0.
OsTables == {EmptyMap, MapPut(EmptyMap, Pid1, [PPid |-> 0, Exe |-> InitExe, ExeOk |-> TRUE])}

\* The executables that can be read for their checksum.
Executables == {ShExe, InitExe}

\* ------------------------------------------------------------------------
\* The engine under concurrent producers
\* ------------------------------------------------------------------------

Init ==
  /\ InitEngine
  /\ osProcs \in OsTables
  /\ files = Executables
  /\ arg = <<>>
  /\ res = <<>>

ToolChainSteps(p) == GetToolChain(p) \/ lookupParent(p) \/ lookupOS(p)

FileSteps(p) == handleFileEvent(p) \/ sendFileEvent(p) \/ trackSourceCode(p)

NetworkSteps(p) == handleNetworkEvent(p) \/ sendNetConnection(p)

\* Events of every type.
MixedEvents ==
  ProcessEvents \cup UnknownEvents
    \cup { FileEvent(Pid100, Pid1, ShExe, IndexJs, ModulesPath, "write"),
           NetworkEvent(Pid200, Pid100, NpmExe, PublicIP, Port443) }

Next ==
  \E p \in Producers :
    \/ \E e \in MixedEvents : CallHandleEvent(p, e)
    \/ HandleEvent(p)
    \/ handleProcessEvent(p)
    \/ FileSteps(p)
    \/ NetworkSteps(p)
    \/ ToolChainSteps(p)

Spec == Init /\ [][Next]_vars

\* The file domain: process and file events.
NextFile ==
  \E p \in Producers :
    \/ \E e \in ProcessEvents \cup FileEvents : CallHandleEvent(p, e)
    \/ HandleEvent(p)
    \/ handleProcessEvent(p)
    \/ FileSteps(p)
    \/ ToolChainSteps(p)

SpecFile == Init /\ [][NextFile]_vars

\* The events that build the ancestry of a file event, and a file event with
\* a file type from a child of pid 100.
AncestryEvents ==
  ProcessEvents \cup {FileEvent(Pid200, Pid100, NpmExe, GitObject, <<>>, "openat")}

NextAncestry ==
  \E p \in Producers :
    \/ \E e \in AncestryEvents : CallHandleEvent(p, e)
    \/ HandleEvent(p)
    \/ handleProcessEvent(p)
    \/ FileSteps(p)
    \/ ToolChainSteps(p)

\* The ancestry resolution of file events, when every producer that can
\* take a step of its call eventually takes one (the Go scheduler runs every
\* runnable goroutine); nothing obliges a producer to call HandleEvent.
FairSpecAncestry ==
  /\ Init
  /\ [][NextAncestry]_vars
  /\ \A p \in Producers :
       WF_vars(HandleEvent(p) \/ handleProcessEvent(p) \/ FileSteps(p) \/ ToolChainSteps(p))

\* The network domain: process and network events.
NextNetwork ==
  \E p \in Producers :
    \/ \E e \in AncestorEvents \cup NetworkEvents : CallHandleEvent(p, e)
    \/ HandleEvent(p)
    \/ handleProcessEvent(p)
    \/ NetworkSteps(p)
    \/ ToolChainSteps(p)

SpecNetwork == Init /\ [][NextNetwork]_vars

\* ------------------------------------------------------------------------
\* Stalled collector calls: one producer of file events, one of network
\* events
\* ------------------------------------------------------------------------

FileProducer == "t1"

NetworkProducer == "t2"

\* The events of the file producer: the ancestry of pid 200 and a file event
\* of it with a file type.
FileSideEvents ==
  AncestorEvents \cup {FileEvent(Pid200, Pid100, NpmExe, GitObject, <<>>, "openat")}

\* The events of the network producer: the same ancestry, a connection of
\* pid 200 to a public address and one to a private address.
NetworkSideEvents ==
  AncestorEvents \cup { NetworkEvent(Pid200, Pid100, NpmExe, PublicIP, Port443),
                        NetworkEvent(Pid100, Pid1, ShExe, PrivateIP, Port443) }

NextStall ==
  \/ \E e \in FileSideEvents : CallHandleEvent(FileProducer, e)
  \/ \E e \in NetworkSideEvents : CallHandleEvent(NetworkProducer, e)
  \/ \E p \in Producers :
       \/ HandleEvent(p)
       \/ handleProcessEvent(p)
       \/ FileSteps(p)
       \/ NetworkSteps(p)
       \/ ToolChainSteps(p)

\* The step of handleNetworkEvent(p) by its guard and its effect on pc: the
\* producer gets netMutex at line 125 and goes on to the collector call, to
\* GetToolChain or to its return.
EntersNetworkHandler(p) ==
  /\ pc[p] = "handleNetworkEvent"
  /\ netMutex = Free
  /\ \E next \in {"idle", "GetToolChain", "sendNetConnection"} :
       pc' = [pc EXCEPT ![p] = next]

\* Every producer that can take a step of its call eventually takes one,
\* except the steps that wait for the collector or the DNS proxy:
\* sendFileEvent and sendNetConnection may never return.
FairSpecStall ==
  /\ Init
  /\ [][NextStall]_vars
  /\ \A p \in Producers :
       /\ WF_vars(HandleEvent(p) \/ handleProcessEvent(p) \/ handleFileEvent(p)
                    \/ trackSourceCode(p) \/ ToolChainSteps(p))
       /\ WF_pc(EntersNetworkHandler(p))

\* ------------------------------------------------------------------------
\* The three domains together, every collaborator call returning
\* ------------------------------------------------------------------------

\* Every producer calls HandleEvent with events of the three types, of an
\* acyclic ancestry.
NextEngine ==
  \E p \in Producers :
    \/ \E e \in FileSideEvents \cup NetworkSideEvents : CallHandleEvent(p, e)
    \/ HandleEvent(p)
    \/ handleProcessEvent(p)
    \/ FileSteps(p)
    \/ NetworkSteps(p)
    \/ ToolChainSteps(p)

\* Every producer that can take a step of its call eventually takes one, the
\* collector and DNS calls included.
FairSpecEngine ==
  /\ Init
  /\ [][NextEngine]_vars
  /\ \A p \in Producers :
       /\ WF_vars(HandleEvent(p) \/ handleProcessEvent(p) \/ FileSteps(p)
                    \/ sendNetConnection(p) \/ ToolChainSteps(p))
       /\ WF_pc(EntersNetworkHandler(p))

\* ------------------------------------------------------------------------
\* isPrivateIPAddress on its own, over a set of addresses
\* ------------------------------------------------------------------------

Dot == <<".">>

\* The text of the IPv4 address a.b.c.d.
Dotted(a, b, c, d) == Itoa(a) \o Dot \o Itoa(b) \o Dot \o Itoa(c) \o Dot \o Itoa(d)

\* The text of the IPv6 address g::1 for a first group g.
Group1(g) == g \o <<":", ":", "1">>

\* IPv4 addresses at and around the bounds of each range.
IPv4Inputs ==
  { Dotted(a, b, c, d) : a \in {8, 9, 10, 11, 126, 127, 128, 169, 172, 192, 224},
                         b \in {0, 15, 16, 31, 32, 167, 168, 169, 254, 255},
                         c \in {0, 1, 255},
                         d \in {1, 255} }

IPv6Inputs ==
  { Group1(g) : g \in { <<"f", "e", "8", "0">>, <<"f", "e", "b", "f">>, <<"f", "e", "c", "0">>,
                        <<"f", "e", "7", "f">>, <<"f", "c", "0", "0">>, <<"f", "d", "f", "f">>,
                        <<"f", "b", "f", "f">>, <<"F", "E", "8", "0">>, <<"f", "f", "0", "2">>,
                        <<"f", "f", "0", "5">>, <<"2", "0", "0", "1">> } }
    \cup { <<":", ":", "1">>, <<":", ":">>, <<":", ":", "2">>,
           <<":", ":", "f", "f", "f", "f", ":">> \o Dotted(10, 0, 0, 1),
           <<":", ":", "f", "f", "f", "f", ":">> \o Dotted(8, 8, 8, 8),
           <<"f", "e", "8", "0", ":", ":", "1", ":", ":", "2">>,
           <<"1", ":", "2", ":", "3", ":", "4", ":", "5", ":", "6", ":", "7", ":", "8">> }

\* Texts that are no address.
MalformedInputs ==
  { <<>>, <<"x">>, <<"1", "0">>, Itoa(10) \o Dot \o Itoa(1) \o Dot \o Itoa(2),
    Dotted(10, 1, 2, 3) \o Dot \o Itoa(4), Dotted(256, 1, 2, 3), Dotted(10, 1, 2, 3) \o <<" ">>,
    <<"1", "0", ".", "a", ".", "2", ".", "3">>, <<"f", "e", "8", "0", ":">>,
    <<"1", "2", "3", "4", "5", ":", ":", "1">> }

IPInputs ==
  IPv4Inputs \cup IPv6Inputs \cup MalformedInputs
    \cup { AllZeros, AzureIPAddress, MetadataIPAddress, Dotted(10, 1, 2, 3),
           Dotted(172, 16, 0, 5), Dotted(192, 168, 1, 1), Dotted(127, 0, 0, 1),
           Dotted(8, 8, 8, 8), Dotted(172, 15, 255, 255), Dotted(172, 32, 0, 0) }

InitIP ==
  /\ InitEngine
  /\ osProcs = EmptyMap
  /\ files = {}
  /\ arg \in IPInputs
  /\ res = <<>>

\* The call isPrivateIPAddress(arg).
CallIsPrivateIPAddress ==
  /\ res = <<>>
  /\ res' = <<isPrivateIPAddress(arg, subnets)>>
  /\ subnets' = SubnetsAfter(arg, subnets)
  /\ UNCHANGED <<engineVars, mutexVars, callVars, envVars, logVars, calls, arg>>

\* The next address to classify.
NextAddress ==
  /\ res # <<>>
  /\ arg' \in IPInputs
  /\ res' = <<>>
  /\ UNCHANGED <<engineVars, mutexVars, subnets, callVars, envVars, logVars, calls>>

NextIP == CallIsPrivateIPAddress \/ NextAddress

SpecIP == InitIP /\ [][NextIP]_vars

\* ------------------------------------------------------------------------
\* Network events whose address is no address
\* ------------------------------------------------------------------------

\* The empty text, a word and an address with a field above 255.
UnparsedAddresses == { <<>>, <<"x">>, Dotted(256, 1, 2, 3) }

\* A connection of pid 100 to each of them.
UnparsedAddressEvents ==
  { NetworkEvent(Pid100, Pid1, ShExe, ip, Port443) : ip \in UnparsedAddresses }

NextUnparsed ==
  \E p \in Producers :
    \/ \E e \in UnparsedAddressEvents : CallHandleEvent(p, e)
    \/ HandleEvent(p)
    \/ NetworkSteps(p)
    \/ ToolChainSteps(p)

SpecUnparsed == Init /\ [][NextUnparsed]_vars

\* ------------------------------------------------------------------------
\* GetToolChain on its own, over a set of process tables and OS answers
\* ------------------------------------------------------------------------

Pid0 == <<"0">>

Pid300 == <<"3", "0", "0">>

\* The executable of a process of the tables.
ExeOfPid(pid) == IF pid = Pid100 THEN ShExe ELSE IF pid = Pid1 THEN InitExe ELSE NpmExe

TablePids == {Pid100, Pid200, Pid300}

ParentPids == {Pid1, Pid100, Pid200, Pid300}

\* The process tables with entries for some of TablePids, each with a parent
\* of ParentPids: chains of up to three generations, and cycles.
ProcessTables ==
  UNION { [pids -> ParentPids] : pids \in SUBSET TablePids }

TableOf(parents) ==
  [pid \in DOMAIN parents |->
     [PID |-> pid, PPid |-> parents[pid], Exe |-> ExeOfPid(pid), Arguments |-> <<>>]]

\* The OS knows nothing; or pid 1 (parent 0) and pid 300 (parent 1); or these
\* and an executable of pid 1 that cannot be read.
OsChainTables ==
  { EmptyMap,
    MapPut(MapPut(EmptyMap, Pid1, [PPid |-> 0, Exe |-> InitExe, ExeOk |-> TRUE]),
           Pid300, [PPid |-> 1, Exe |-> NpmExe, ExeOk |-> TRUE]),
    MapPut(MapPut(EmptyMap, Pid1, [PPid |-> 0, Exe |-> InitExe, ExeOk |-> FALSE]),
           Pid300, [PPid |-> 1, Exe |-> NpmExe, ExeOk |-> TRUE]) }

\* The one caller.
Caller == "t1"

InitChain ==
  /\ \E parents \in ProcessTables : InitWith(TableOf(parents))
  /\ osProcs \in OsChainTables
  /\ files = Executables
  /\ arg \in ParentPids \X {ShExe}
  /\ res = <<>>

\* The call GetToolChain(ppid, exe) of the arguments arg.
CallChain ==
  /\ pc[Caller] = "idle"
  /\ res = <<>>
  /\ CallGetToolChain(Caller, arg[1], arg[2], "returned")
  /\ UNCHANGED <<engineVars, mutexVars, subnets, event, fileType, envVars, logVars, calls,
                 testVars>>

\* The outermost call has returned: its Tool chain is the result.
ReturnChain ==
  /\ pc[Caller] = "returned"
  /\ res' = <<chain[Caller]>>
  /\ Return(Caller)
  /\ UNCHANGED <<engineVars, mutexVars, subnets, envVars, logVars, calls, arg>>

NextChain == CallChain \/ ToolChainSteps(Caller) \/ ReturnChain

SpecChain == InitChain /\ [][NextChain]_vars

\* ------------------------------------------------------------------------
\* Network events of tuples whose texts run into one another
\* ------------------------------------------------------------------------

Pid12 == <<"1", "2">>

\* Connections of pid 1 to 23.4.5.6 and of pid 12 to 3.4.5.6, both to
\* port 443.
AdjoiningTupleEvents ==
  { NetworkEvent(Pid1, Pid0, InitExe, Dotted(23, 4, 5, 6), Port443),
    NetworkEvent(Pid12, Pid1, ShExe, Dotted(3, 4, 5, 6), Port443) }

NextKeys ==
  \E p \in Producers :
    \/ \E e \in AdjoiningTupleEvents : CallHandleEvent(p, e)
    \/ HandleEvent(p)
    \/ NetworkSteps(p)
    \/ ToolChainSteps(p)

SpecKeys == Init /\ [][NextKeys]_vars

\* ------------------------------------------------------------------------
\* File events that name the marker file of the post step
\* ------------------------------------------------------------------------

MarkerFile == <<"/", "w", "/">> \o PostEventJson

\* A JavaScript file under node_modules whose name holds the marker's.
MarkerScript == ModulesPath \o <<"/">> \o PostEventJson \o DotJs

\* A chmod of the marker file, a write of it under a relative name, writes
\* of the script by two pids, and a write of a file that is no marker.
MarkerEvents ==
  { FileEvent(Pid100, Pid1, ShExe, MarkerFile, <<>>, "chmod"),
    FileEvent(Pid200, Pid100, NpmExe, PostEventJson, <<"/", "w">>, "write"),
    FileEvent(Pid100, Pid1, ShExe, MarkerScript, <<>>, "write"),
    FileEvent(Pid200, Pid100, NpmExe, MarkerScript, <<>>, "write"),
    FileEvent(Pid100, Pid1, ShExe, MainGo, <<>>, "write") }

NextMarker ==
  \E p \in Producers :
    \/ \E e \in MarkerEvents : CallHandleEvent(p, e)
    \/ HandleEvent(p)
    \/ FileSteps(p)
    \/ ToolChainSteps(p)

SpecMarker == Init /\ [][NextMarker]_vars

\* ------------------------------------------------------------------------
\* Properties
\* ------------------------------------------------------------------------

\* The number the first two bytes of an address are: every listed range is
\* an interval of it, the other bytes being free.
FirstGroup(ip) == ip[1] * 256 + ip[2]

Between(x, lo, hi) == lo <= x /\ x <= hi

\* The addresses the ranges 10.0.0.0/8, 172.16.0.0/12, 192.168.0.0/16,
\* 127.0.0.0/8, fe80::/10 and fc00::/7 hold, as intervals of numbers, the
\* all-zeros literal, and the standard library's loopback and link-local
\* addresses.
InListedRanges(s) ==
  LET ip == ParseIP(s)
      ip4 == To4(ip)
  IN \/ s = AllZeros
     \/ /\ ip4 # NilIP
        /\ \/ Between(FirstGroup(ip4), FirstGroup(<<10, 0>>), FirstGroup(<<10, 255>>))
           \/ Between(FirstGroup(ip4), FirstGroup(<<172, 16>>), FirstGroup(<<172, 31>>))
           \/ FirstGroup(ip4) = FirstGroup(<<192, 168>>)
           \/ Between(FirstGroup(ip4), FirstGroup(<<127, 0>>), FirstGroup(<<127, 255>>))
     \/ /\ ip # NilIP
        /\ ip4 = NilIP
        /\ \/ Between(FirstGroup(ip), FirstGroup(<<254, 128>>), FirstGroup(<<254, 191>>))
           \/ Between(FirstGroup(ip), FirstGroup(<<252, 0>>), FirstGroup(<<253, 255>>))
     \/ /\ ip # NilIP
        /\ IsLoopback(ip) \/ IsLinkLocalUnicast(ip) \/ IsLinkLocalMulticast(ip)

PrivateExamples ==
  { Dotted(10, 1, 2, 3), Dotted(172, 16, 0, 5), Dotted(192, 168, 1, 1), Dotted(127, 0, 0, 1),
    <<":", ":", "1">>, Group1(<<"f", "e", "8", "0">>), Group1(<<"f", "c", "0", "0">>) }

PublicExamples == { Dotted(8, 8, 8, 8), Dotted(172, 15, 255, 255), Dotted(172, 32, 0, 0) }

\* C8: isPrivateIPAddress returns true exactly for the addresses of the six
\* listed ranges, the all-zeros literal and the standard library's loopback
\* and link-local addresses, and false for every other text: true for
\* 10.1.2.3, 172.16.0.5, 192.168.1.1, 127.0.0.1, ::1, fe80::1 and fc00::1,
\* false for 8.8.8.8, 172.15.255.255 and 172.32.0.0.
C8_PrivateExactlyInRanges ==
  res # <<>> =>
    /\ res[1] = InListedRanges(arg)
    /\ arg \in PrivateExamples => res[1]
    /\ arg \in PublicExamples => ~res[1]

\* The upper neighbour of 172.16.0.0/12 has been classified, as not private.
C8_Witness == arg = Dotted(172, 32, 0, 0) /\ res = <<FALSE>> /\ subnets # NilSubnets

\* A pid with a process the table or the OS lookups resolve, and that
\* process's parent: the table is asked first, the OS only for a pid the
\* table does not hold.
Resolvable(pid) ==
  \/ Found(ProcessMap, pid)
  \/ /\ Found(osProcs, pid)
     /\ osProcs[pid].ExeOk

ParentOf(pid) ==
  IF Found(ProcessMap, pid) THEN ProcessMap[pid].PPid ELSE Itoa(osProcs[pid].PPid)

\* The number of ancestors resolvable from pid by following the parents.
RECURSIVE Ancestors(_, _)
Ancestors(pid, fuel) ==
  IF fuel = 0 \/ ~Resolvable(pid) THEN 0 ELSE 1 + Ancestors(ParentOf(pid), fuel - 1)

\* The table holds 200 with parent 100 and 100 with parent 1, and nothing
\* resolves pid 1.
ThreeGenerations ==
  /\ Found(ProcessMap, Pid200) /\ ProcessMap[Pid200].PPid = Pid100
  /\ Found(ProcessMap, Pid100) /\ ProcessMap[Pid100].PPid = Pid1
  /\ ~Resolvable(Pid1)

\* C5: the chain GetToolChain(ppid, exe) returns has 1 + the number of
\* resolvable ancestors of ppid Tools, each the Tool of the executable of its
\* generation: 3 for a table chain of three generations whose top has an
\* unresolvable parent, 1 when the table is empty and the OS lookups fail.
C5_ChainLength ==
  res # <<>> =>
    /\ Len(res[1]) < MaxChain
    /\ Len(res[1]) = 1 + Ancestors(arg[1], MaxChain)
    /\ res[1][1].Name = Base(arg[2])
    /\ ThreeGenerations /\ arg[1] = Pid200 => Len(res[1]) = 3
    /\ ProcessMap = EmptyMap /\ osProcs = EmptyMap => Len(res[1]) = 1

\* The chain of three generations has been returned, with the Tools of the
\* event's executable, of pid 200's and of pid 100's.
C5_Witness ==
  /\ ThreeGenerations
  /\ arg[1] = Pid200
  /\ res # <<>>
  /\ Len(res[1]) = 3
  /\ res[1][3].Name = Base(ShExe)

\* The (pid, ip, port) tuple of a network event or of a sent connection.
Tuple(r) == <<r.Pid, r.IPAddress, r.Port>>

\* C1: in every interleaving of the producers, the events of one (pid, ip,
\* port) tuple cause at most one sendNetConnection call in total.
C1_AtMostOneConnectionPerTuple ==
  \A i, j \in 1..Len(netConnections) :
    Tuple(netConnections[i]) = Tuple(netConnections[j]) => i = j

\* A producer holds netMutex to send a tuple's connection while the other
\* producer waits with an event of the same tuple; or the tuple's connection
\* has been sent and an event of the tuple arrives again.
C1_Witness ==
  \E p, q \in Producers :
    /\ p # q
    /\ pc[q] = "handleNetworkEvent"
    /\ Tuple(event[q]) = <<Pid100, PublicIP, Port443>>
    /\ \/ pc[p] = "sendNetConnection" /\ Tuple(event[p]) = Tuple(event[q])
       \/ \E i \in 1..Len(netConnections) : Tuple(netConnections[i]) = Tuple(event[q])

\* The addresses the network handler is to drop.
IsDropped(ipAddress) ==
  \/ ipAddress = AllZeros
  \/ ipAddress = <<":", ":", "1">>
  \/ ipAddress = AzureIPAddress
  \/ ipAddress = MetadataIPAddress
  \/ isPrivateIPAddress(ipAddress, subnets)

\* The step of producer p: every step of a call changes the caller's pc.
StepOf(p) == pc'[p] # pc[p]

\* C7: the handling of a network event whose address is all-zeros, "::1", a
\* metadata address or private returns without a sendNetConnection call and
\* without a new key in ProcessConnectionMap; a step that sends a connection
\* or adds a key is the step of an event whose address is none of these, and
\* sends that event's address.
C7_DroppedAddressesNotReported ==
  [][ \A p \in Producers :
        StepOf(p) =>
          /\ ( /\ pc[p] = "handleNetworkEvent"
               /\ IsDropped(event[p].IPAddress) )
             => /\ pc'[p] = "idle"
                /\ UNCHANGED <<ProcessConnectionMap, netConnections>>
          /\ netConnections' # netConnections
             => /\ ~IsDropped(event[p].IPAddress)
                /\ Len(netConnections') = Len(netConnections) + 1
                /\ SubSeq(netConnections', 1, Len(netConnections)) = netConnections
                /\ netConnections'[Len(netConnections')].IPAddress = event[p].IPAddress
          /\ ProcessConnectionMap' # ProcessConnectionMap
             => /\ ~IsDropped(event[p].IPAddress)
                /\ DOMAIN ProcessConnectionMap'
                     = DOMAIN ProcessConnectionMap \cup {event[p].Pid \o event[p].IPAddress
                                                           \o event[p].Port} ]_vars

\* An event to the first metadata address is handled when a connection of its
\* pid has already been sent.
C7_Witness ==
  \E p \in Producers :
    /\ pc[p] = "handleNetworkEvent"
    /\ event[p].IPAddress = AzureIPAddress
    /\ netMutex = Free
    /\ \E i \in 1..Len(netConnections) : netConnections[i].Pid = event[p].Pid

ProcessPcs == {"HandleEvent", "handleProcessEvent"}

ToolChainPcs == {"GetToolChain", "lookupParent", "lookupOS"}

FilePcs == {"HandleEvent", "handleFileEvent", "sendFileEvent", "trackSourceCode"} \cup ToolChainPcs

NetworkPcs == {"HandleEvent", "handleNetworkEvent", "sendNetConnection"} \cup ToolChainPcs

\* The steps a call with an event of the given type may be at.
PcsOf(eventType) ==
  IF eventType = processMonitorTag THEN ProcessPcs
  ELSE IF eventType = fileMonitorTag THEN FilePcs
  ELSE IF eventType = netMonitorTag THEN NetworkPcs
  ELSE {"HandleEvent"}

\* Every call in progress is in the handler of its event's type.
InOwnHandler == \A p \in Producers : pc[p] # "idle" => pc[p] \in PcsOf(event[p].EventType)

\* C9: HandleEvent runs the one handler of the event's type; the call of an
\* event of an unknown type returns from the switch with every map, mutex and
\* collaborator log unchanged; no step of a process event's call changes
\* anything but the process table; no step of a network event's call changes
\* the process table, the file-seen map or the source-file history, or calls
\* a collaborator of the file handler.
C9_OneHandlerPerType ==
  [][ /\ InOwnHandler'
      /\ \A p \in Producers :
           (StepOf(p) /\ pc[p] # "idle") =>
             IF event[p].EventType = processMonitorTag
             THEN UNCHANGED <<ProcessConnectionMap, ProcessFileMap, SourceCodeMap, netMutex,
                              fileMutex, subnets, logVars>>
             ELSE IF event[p].EventType = netMonitorTag
             THEN UNCHANGED <<ProcessMap, ProcessFileMap, SourceCodeMap, fileMutex, fileEvents,
                              annotations, doneSignals>>
             ELSE IF event[p].EventType = fileMonitorTag
             THEN UNCHANGED <<ProcessMap, ProcessConnectionMap, netMutex, subnets,
                              netConnections>>
             ELSE /\ pc'[p] = "idle"
                  /\ UNCHANGED <<engineVars, mutexVars, subnets, logVars>> ]_vars

\* HandleEvent is at its switch with an event of an unknown type, when the
\* process table already holds a process.
C9_Witness ==
  \E p \in Producers :
    /\ pc[p] = "HandleEvent"
    /\ event[p].EventType \notin {netMonitorTag, fileMonitorTag, processMonitorTag}
    /\ ProcessMap # EmptyMap

\* C10: no step removes or changes an entry of ProcessMap; the only new
\* entry of a step is that of the pid of the process event being handled,
\* with the event's pid, ppid, executable and arguments; and the handling of
\* a process event whose pid the table holds leaves the table as it is.
C10_ProcessTableFirstWriteWins ==
  [][ /\ \A pid \in DOMAIN ProcessMap :
           pid \in DOMAIN ProcessMap' /\ ProcessMap'[pid] = ProcessMap[pid]
      /\ \A p \in Producers :
           StepOf(p) =>
             IF pc[p] = "handleProcessEvent" /\ event[p].Pid \notin DOMAIN ProcessMap
             THEN /\ DOMAIN ProcessMap' = DOMAIN ProcessMap \cup {event[p].Pid}
                  /\ ProcessMap'[event[p].Pid].PID = event[p].Pid
                  /\ ProcessMap'[event[p].Pid].PPid = event[p].PPid
                  /\ ProcessMap'[event[p].Pid].Exe = event[p].Exe
                  /\ ProcessMap'[event[p].Pid].Arguments = event[p].ProcessArguments
             ELSE ProcessMap' = ProcessMap ]_vars

\* A process event of pid 100 is handled when the table holds pid 100 with
\* another parent, executable and arguments.
C10_Witness ==
  \E p \in Producers :
    /\ pc[p] = "handleProcessEvent"
    /\ event[p].Pid = Pid100
    /\ Found(ProcessMap, Pid100)
    /\ ProcessMap[Pid100].PPid # event[p].PPid
    /\ ProcessMap[Pid100].Exe # event[p].Exe
    /\ ProcessMap[Pid100].Arguments # event[p].ProcessArguments

\* The pids of the writes recorded for a file, and the annotations of it.
WriterPids(fileName) ==
  {SourceCodeMap[fileName][i].Pid : i \in 1..Len(SourceCodeMap[fileName])}

AnnotationsOf(fileName) == {i \in 1..Len(annotations) : annotations[i].FileName = fileName}

\* C2: the tamper annotation fires once per distinct new writer pid of a
\* source file after its first writer, and never for a pid already recorded
\* for the file: the annotations of a file are one fewer than its distinct
\* writers, so that writes by pids 100, 200 and 100 give one annotation.
C2_OneAnnotationPerNewWriter ==
  \A fileName \in DOMAIN SourceCodeMap :
    Cardinality(AnnotationsOf(fileName)) = Cardinality(WriterPids(fileName)) - 1

\* The sent file events of a pid.
FileEventsOf(pid) == {i \in 1..Len(fileEvents) : fileEvents[i].Pid = pid}

\* A path with a file type: under /node_modules/ with the suffix .js, or
\* containing .git/objects.
Classifiable(fileName) ==
  \/ Contains(fileName, NodeModulesDir) /\ HasSuffix(fileName, DotJs)
  \/ Contains(fileName, GitObjects)

\* C3: each pid has at most one sendFileEvent call, and ProcessFileMap holds
\* exactly the pids that have one; the handling of a file event decides to
\* send exactly when the event's path is classifiable and its pid has no
\* call yet, with "Dependencies" for a .js file under /node_modules/ and
\* "Source Code" for a path containing .git/objects; and when the handling of
\* an event with a classifiable path returns, its pid has exactly one call.
C3_OneFileEventPerPid ==
  [][ \A p \in Producers :
        StepOf(p) =>
          /\ \A pid \in {fileEvents'[i].Pid : i \in 1..Len(fileEvents')} :
               Cardinality({i \in 1..Len(fileEvents') : fileEvents'[i].Pid = pid}) = 1
          /\ DOMAIN ProcessFileMap' = {fileEvents'[i].Pid : i \in 1..Len(fileEvents')}
          /\ pc[p] = "handleFileEvent" =>
               /\ fileType'[p] # ""
                    <=> /\ Classifiable(event'[p].FileName)
                        /\ FileEventsOf(event[p].Pid) = {}
               /\ fileType'[p] = "Dependencies"
                    => Contains(event'[p].FileName, NodeModulesDir)
               /\ fileType'[p] # "" => pc'[p] = "GetToolChain" /\ ret'[p] = "sendFileEvent"
          /\ pc[p] = "sendFileEvent" =>
               /\ Len(fileEvents') = Len(fileEvents) + 1
               /\ fileEvents'[Len(fileEvents')].Pid = event[p].Pid
               /\ fileEvents'[Len(fileEvents')].FileType = fileType[p]
          /\ pc[p] # "sendFileEvent" => fileEvents' = fileEvents
          /\ (pc[p] = "trackSourceCode" /\ Classifiable(event[p].FileName))
               => Cardinality({i \in 1..Len(fileEvents') : fileEvents'[i].Pid = event[p].Pid}) = 1
    ]_vars

\* A second event of pid 100 with a classifiable path is handled after the
\* pid's file event was sent: it is not sent again.
C3_Witness ==
  \E p \in Producers :
    /\ pc[p] = "trackSourceCode"
    /\ event[p].Pid = Pid100
    /\ Classifiable(event[p].FileName)
    /\ fileType[p] = ""
    /\ Cardinality(FileEventsOf(Pid100)) = 1
    /\ Found(ProcessFileMap, Pid100)

\* The three steps of GetToolChain.
InGetToolChain(p) == pc[p] \in ToolChainPcs

\* C4: every GetToolChain call returns, whatever the process table the
\* process events have built and whatever the OS lookups answer.
C4_GetToolChainReturns ==
  \A p \in Producers : InGetToolChain(p) ~> ~InGetToolChain(p)

\* C6: no step of the handling of a file event whose syscall is chmod, unlink
\* or unlinkat changes SourceCodeMap or writes an annotation, whatever the
\* file's extension and recorded writers.
C6_ExcludedSyscallsNotTracked ==
  [][ \A p \in Producers :
        ( /\ StepOf(p)
          /\ pc[p] # "idle"
          /\ event[p].EventType = fileMonitorTag
          /\ event[p].Syscall \in {"chmod", "unlink", "unlinkat"} )
        => UNCHANGED <<SourceCodeMap, annotations>> ]_vars

\* The unlink of a source file by pid 100 reaches the write tracking when the
\* file has a recorded write by another pid.
C6_Witness ==
  \E p \in Producers :
    /\ pc[p] = "trackSourceCode"
    /\ event[p].Syscall = "unlink"
    /\ isSourceCodeFile(event[p].FileName)
    /\ Found(SourceCodeMap, event[p].FileName)
    /\ \E i \in 1..Len(SourceCodeMap[event[p].FileName]) :
         SourceCodeMap[event[p].FileName][i].Pid # event[p].Pid

\* A producer is inside the critical section of the file handler, from the
\* Lock of line 37 to the Unlock of line 88; and of the network handler, from
\* line 125 to line 154.
InFileSection(p) ==
  /\ event[p].EventType = fileMonitorTag
  /\ pc[p] \in FilePcs \ {"HandleEvent", "handleFileEvent"}

InNetworkSection(p) ==
  /\ event[p].EventType = netMonitorTag
  /\ pc[p] \in NetworkPcs \ {"HandleEvent", "handleNetworkEvent"}

\* C11: at most one producer is inside the file handler's critical section
\* and at most one inside the network handler's, the producer inside being
\* the holder of the domain's mutex; a handler enters only when the mutex is
\* free and holds it at every step up to its return, the ancestry resolution
\* and the collector call included; and a step that changes the file-seen
\* map, the source-file history or the connection map is a step of the
\* holder, so that no other event of the domain comes between the lookup of
\* a key and its marking.
C11_OneEventPerDomainSection ==
  [][ /\ \A p \in Producers : InFileSection(p)' => fileMutex' = p
      /\ \A p \in Producers : InNetworkSection(p)' => netMutex' = p
      /\ \A p \in Producers :
           StepOf(p) =>
             /\ pc[p] = "handleFileEvent" => fileMutex = Free /\ fileMutex' = p
             /\ InFileSection(p) => fileMutex = p /\ (fileMutex' = p \/ pc'[p] = "idle")
             /\ pc[p] = "handleNetworkEvent"
                  => netMutex = Free /\ (netMutex' = p \/ pc'[p] = "idle")
             /\ InNetworkSection(p) => netMutex = p /\ (netMutex' = p \/ pc'[p] = "idle")
             /\ pc'[p] = "idle" => fileMutex' # p /\ netMutex' # p
             /\ <<ProcessFileMap, SourceCodeMap, fileEvents, annotations>>'
                  # <<ProcessFileMap, SourceCodeMap, fileEvents, annotations>>
                  => fileMutex = p
             /\ <<ProcessConnectionMap, netConnections>>'
                  # <<ProcessConnectionMap, netConnections>>
                  => netMutex = p ]_vars

\* A producer is in the collector call of the file handler, holding
\* fileMutex, while the other waits at the Lock with a file event.
C11_Witness ==
  \E p, q \in Producers :
    /\ p # q
    /\ pc[p] = "sendFileEvent"
    /\ fileMutex = p
    /\ pc[q] = "handleFileEvent"

\* The call of producer p handles an event of the given type.
Handling(p, eventType) == pc[p] # "idle" /\ event[p].EventType = eventType

\* C12: the domains do not block one another. The process-table lock is
\* held only between the Lock of line 216 and the Unlock of line 218, never
\* across a collector, DNS, container or OS call; and when the collector calls
\* may stall for ever, every process event still returns, every file event
\* returns or reaches its own collector call whatever the network handler
\* does, and every network event returns or reaches its own collector call
\* whatever the file handler does.
C12_DomainsDoNotBlockOneAnother ==
  /\ [](\A p \in Producers : procMutex = p => pc[p] = "lookupParent")
  /\ \A p \in Producers :
       /\ Handling(p, processMonitorTag) ~> pc[p] = "idle"
       /\ Handling(p, fileMonitorTag) ~> (pc[p] = "idle" \/ pc[p] = "sendFileEvent")
       /\ Handling(p, netMonitorTag) ~> (pc[p] = "idle" \/ pc[p] = "sendNetConnection")

\* The file producer is in its collector call, holding fileMutex, and the
\* network producer has resolved the ancestry of its connection and is in
\* its own, holding netMutex.
C12_Witness ==
  /\ pc[FileProducer] = "sendFileEvent"
  /\ fileMutex = FileProducer
  /\ pc[NetworkProducer] = "sendNetConnection"
  /\ netMutex = NetworkProducer
  /\ Len(chain[NetworkProducer]) >= 2
  /\ procMutex = Free

\* The address is no address for net.ParseIP and none of the texts the
\* network handler compares with.
Unparsed(ipAddress) ==
  /\ ParseIP(ipAddress) = NilIP
  /\ ipAddress \notin {AllZeros, IPv6LoopbackLiteral, AzureIPAddress, MetadataIPAddress}

\* The connections sent for the tuple of an event.
ConnectionsOf(e) == {i \in 1..Len(netConnections) : Tuple(netConnections[i]) = Tuple(e)}

\* C13: a network event whose address cannot be parsed is classified as not
\* private and handled like an event with a routable address: the handler
\* goes on to the tool and the collector call when no connection of the
\* event's (pid, ip, port) has been sent, and returns without a call when one
\* has; the collector call sends the address as it is and marks the key; and
\* no tuple is ever sent twice.
C13_UnparsedAddressReportedOnce ==
  [][ \A p \in Producers :
        (StepOf(p) /\ Handling(p, netMonitorTag) /\ Unparsed(event[p].IPAddress)) =>
          /\ ~isPrivateIPAddress(event[p].IPAddress, subnets)
          /\ pc[p] = "handleNetworkEvent" =>
               IF ConnectionsOf(event[p]) = {}
               THEN /\ pc'[p] \in {"GetToolChain", "sendNetConnection"}
                    /\ netMutex' = p
               ELSE /\ pc'[p] = "idle"
                    /\ UNCHANGED <<ProcessConnectionMap, netConnections>>
          /\ pc[p] = "sendNetConnection" =>
               /\ ConnectionsOf(event[p]) = {}
               /\ Len(netConnections') = Len(netConnections) + 1
               /\ Tuple(netConnections'[Len(netConnections')]) = Tuple(event[p])
               /\ Found(ProcessConnectionMap', CacheKey(event[p])) ]_vars

\* The connection of pid 100 to the address "x" has been sent, and an event
\* of the same tuple is at the handler again.
C13_Witness ==
  \E p \in Producers :
    /\ pc[p] = "handleNetworkEvent"
    /\ event[p].IPAddress = <<"x">>
    /\ Unparsed(event[p].IPAddress)
    /\ Cardinality(ConnectionsOf(event[p])) = 1

\* C14: the dedup key identifies its tuple: a sent connection and a network
\* event with a reportable address that have one key have one (pid, ip, port)
\* tuple, so that no event is dropped for the connection of another tuple.
C14_KeyIdentifiesTuple ==
  \A p \in Producers :
    (Handling(p, netMonitorTag) /\ IsReportable(event[p].IPAddress, subnets)) =>
      \A i \in 1..Len(netConnections) :
        CacheKey(netConnections[i]) = CacheKey(event[p])
          => Tuple(netConnections[i]) = Tuple(event[p])

\* C15: in every reachable state the write history of each source file holds
\* at most one entry per writer pid: no pid appears twice, so that a write by
\* a pid already recorded does not grow the history.
C15_HistoryOneEntryPerPid ==
  \A fileName \in DOMAIN SourceCodeMap :
    \A i, j \in 1..Len(SourceCodeMap[fileName]) :
      SourceCodeMap[fileName][i].Pid = SourceCodeMap[fileName][j].Pid => i = j

\* The pids the process table or the OS knows.
KnownPids == DOMAIN ProcessMap \cup DOMAIN osProcs

\* The ancestry the process table and the OS report has no cycle: from
\* every known pid the parents end after at most as many steps as there are
\* known pids.
AcyclicAncestry ==
  \A pid \in KnownPids :
    Ancestors(pid, Cardinality(KnownPids) + 1) <= Cardinality(KnownPids)

\* C16: GetToolChain returns whenever the ancestry reported by the process
\* table and the OS lookups has no cycle, in any interleaving with the
\* inserts of process events: a call in progress while the ancestry is
\* acyclic returns, unless an insert makes the ancestry cyclic.
C16_GetToolChainReturnsWithoutCycle ==
  \A p \in Producers :
    (InGetToolChain(p) /\ AcyclicAncestry) ~> (~InGetToolChain(p) \/ ~AcyclicAncestry)

\* GetToolChain has followed the table from pid 100 to pid 1, which the OS
\* knows, and the ancestry has no cycle.
C16_Witness ==
  \E p \in Producers :
    /\ pc[p] = "lookupOS"
    /\ ppidArg[p] = Pid1
    /\ Found(osProcs, Pid1)
    /\ Found(ProcessMap, Pid100)
    /\ Len(chain[p]) >= 2
    /\ AcyclicAncestry

\* C17: the tool of a reported network event. For some answer of the
\* container lookup: a non-empty image is the tool, with the image as name
\* and checksum and no parent, and GetToolChain is not called; with no image
\* and a non-empty executable the tool is that of GetToolChain(ppid, exe);
\* with neither, the tool is the empty Tool. In each case the collector call
\* sends the tool so chosen and marks the event's key.
C17_ToolOfConnection ==
  [][ \A p \in Producers :
        (StepOf(p) /\ Handling(p, netMonitorTag)) =>
          /\ (pc[p] = "handleNetworkEvent" /\ pc'[p] # "idle") =>
               \E image \in ContainerImages :
                 IF image # <<>>
                 THEN /\ pc'[p] = "sendNetConnection"
                      /\ chain'[p] = <<[Name |-> image, SHA256 |-> image]>>
                 ELSE IF event[p].Exe # <<>>
                 THEN /\ pc'[p] = "GetToolChain"
                      /\ ppidArg'[p] = event[p].PPid
                      /\ exeArg'[p] = event[p].Exe
                      /\ ret'[p] = "sendNetConnection"
                 ELSE /\ pc'[p] = "sendNetConnection"
                      /\ chain'[p] = <<>>
          /\ (pc[p] \in ToolChainPcs /\ pc'[p] = "sendNetConnection") =>
               /\ chain'[p] = chain[p]
               /\ chain[p][1].Name = Base(event[p].Exe)
          /\ pc[p] = "sendNetConnection" =>
               /\ Len(netConnections') = Len(netConnections) + 1
               /\ netConnections'[Len(netConnections')].Tool = chain[p]
               /\ Tuple(netConnections'[Len(netConnections')]) = Tuple(event[p])
               /\ Found(ProcessConnectionMap', CacheKey(event[p]))
               /\ pc'[p] = "idle" ]_vars

\* An event with neither image nor executable is at the collector call with
\* the empty Tool, after a connection was sent with the chain of
\* GetToolChain for the event's executable and its parent's.
C17_Witness ==
  /\ \E p \in Producers :
       /\ pc[p] = "sendNetConnection"
       /\ event[p].Exe = <<>>
       /\ chain[p] = <<>>
  /\ \E i \in 1..Len(netConnections) :
       /\ Len(netConnections[i].Tool) >= 2
       /\ netConnections[i].Tool[1].Name = Base(ShExe)

\* The path holds the name of the marker file.
NamesMarker(fileName) ==
  \E i \in 1..Len(fileName) :
    /\ i + Len(PostEventJson) - 1 <= Len(fileName)
    /\ SubSeq(fileName, i, i + Len(PostEventJson) - 1) = PostEventJson

\* C18: the first step of the handling of a file event gives the done
\* signal exactly when the event's path, made absolute with its directory,
\* names the marker file, whatever the pid's classification, the syscall and
\* the file's history, and no other step gives one; and every file event
\* returns through the write tracking, which records a tracked write and
\* annotates a write to a file another pid has written, whether or not the
\* pid is marked in ProcessFileMap or the event was just reported.
C18_DoneSignalAndTrackingIndependent ==
  [][ \A p \in Producers :
        (StepOf(p) /\ Handling(p, fileMonitorTag)) =>
          /\ pc[p] = "handleFileEvent" =>
               /\ event'[p].FileName
                    = IF HasPrefix(event[p].FileName, <<"/">>) THEN event[p].FileName
                      ELSE Join(event[p].Path, event[p].FileName)
               /\ doneSignals' = IF NamesMarker(event'[p].FileName)
                                 THEN doneSignals + 1 ELSE doneSignals
          /\ pc[p] # "handleFileEvent" => doneSignals' = doneSignals
          /\ pc'[p] = "idle" => pc[p] = "trackSourceCode"
          /\ pc[p] = "sendFileEvent" => pc'[p] = "trackSourceCode"
          /\ (pc[p] = "trackSourceCode" /\ IsTracked(event[p])) =>
               /\ Found(SourceCodeMap', event[p].FileName)
               /\ ( /\ Found(SourceCodeMap, event[p].FileName)
                    /\ IsFromDifferentProcess(SourceCodeMap[event[p].FileName], event[p]) )
                  => /\ Len(annotations') = Len(annotations) + 1
                     /\ annotations'[Len(annotations')].FileName = event[p].FileName ]_vars

\* The write of the script by pid 200 was classified and reported, gave the
\* done signal, and is at the write tracking with a write of pid 100
\* recorded for the file.
C18_Witness ==
  \E p \in Producers :
    /\ pc[p] = "trackSourceCode"
    /\ event[p].FileName = MarkerScript
    /\ event[p].Pid = Pid200
    /\ FileEventsOf(Pid200) # {}
    /\ fileEvents[Len(fileEvents)].FileName = MarkerScript
    /\ Found(ProcessFileMap, Pid200)
    /\ Found(SourceCodeMap, MarkerScript)
    /\ SourceCodeMap[MarkerScript][1].Pid = Pid100
    /\ doneSignals >= 2

\* C19: no handler modifies the Event it is given or keeps it after its
\* return: the Event of every call in progress is one of the Events the
\* producers gave, field by field, and every Event the source-file history
\* holds is the Event of a call in progress.
C19_EventNeitherChangedNorKept ==
  /\ \A p \in Producers : pc[p] # "idle" => event[p] \in ProcessEvents \cup FileEvents
  /\ \A fileName \in DOMAIN SourceCodeMap :
       \A i \in 1..Len(SourceCodeMap[fileName]) :
         \E p \in Producers : pc[p] # "idle" /\ event[p] = SourceCodeMap[fileName][i]

\* The mutexes producer p holds.
HeldBy(p) == {i \in 1..3 : mutexVars[i] = p}

\* C20: the engine cannot deadlock. No producer holds fileMutex and netMutex
\* together; procMutex is taken only after the domain lock of the call, if
\* any, and a domain lock is never taken by a producer that holds procMutex;
\* procMutex is released before GetToolChain recurses or asks the OS; and,
\* every collaborator call returning and the ancestry being acyclic, every
\* HandleEvent call returns, with every lock it took released.
C20_NoDeadlock ==
  /\ [](\A p \in Producers :
          /\ ~(fileMutex = p /\ netMutex = p)
          /\ procMutex = p => pc[p] = "lookupParent"
          /\ pc[p] \in {"idle", "HandleEvent"} => HeldBy(p) = {})
  /\ \A p \in Producers : pc[p] # "idle" ~> pc[p] = "idle"

\* One producer holds fileMutex and procMutex inside GetToolChain, the other
\* holds netMutex and waits for procMutex at the Lock of its own
\* GetToolChain call.
C20_Witness ==
  \E p, q \in Producers :
    /\ fileMutex = p
    /\ procMutex = p
    /\ pc[p] = "lookupParent"
    /\ netMutex = q
    /\ pc[q] = "GetToolChain"

====
